---- MODULE Spec2Model ----
(***************************************************************************)
(* Model of the Options container of typedoc (class Options): the          *)
(* declaration registry, the two value bags (TypeDoc scope and TypeScript  *)
(* scope), and the priority ordered reader pipeline.                       *)
(***************************************************************************)
EXTENDS Integers, Sequences, FiniteSets, TLC

VARIABLES _readers, _declarations, _values, _compilerOptions, last, added

vars == <<_readers, _declarations, _values, _compilerOptions, last, added>>

(***************************************************************************)
(* Bounds of the model.                                                    *)
(***************************************************************************)
\* raw values handed to setValue / setValues are 0..MaxRaw
MaxRaw == 2
\* number of entries of the object handed to setValues
MaxEntries == 2
\* number of readers held by the container at any time
MaxReaders == 4

(***************************************************************************)
(* Values.  Option values are integers; Undefined is JavaScript's          *)
(* undefined (a missing property, or a default that was never given).      *)
(***************************************************************************)
Undefined == 0 - 1

RawValues == 0..MaxRaw

\* the empty object {}
EmptyBag == [k \in {} |-> 0]

BagSet(bag, k, v) == [x \in (DOMAIN bag) \cup {k} |-> IF x = k THEN v ELSE bag[x]]

BagDelete(bag, k) == [x \in (DOMAIN bag) \ {k} |-> bag[x]]

BagGet(bag, k) == IF k \in DOMAIN bag THEN bag[k] ELSE Undefined

(***************************************************************************)
(* Names.  String.prototype.toLowerCase on the option names of the model.  *)
(***************************************************************************)
LowerTable ==
    [n \in {"Opt", "OPT", "opt", "o", "O", "p", "ts", "zz"} |->
        CASE n \in {"Opt", "OPT", "opt"} -> "opt"
          [] n \in {"o", "O"} -> "o"
          [] OTHER -> n]

toLowerCase(n) == LowerTable[n]

\* the names callers pass to the container
CallNames == {"Opt", "OPT", "o", "O", "p", "ts", "zz"}

(***************************************************************************)
(* Declarations.  A declaration is an object; the model knows four of them *)
(* by identity.  short = "" is a declaration without a short alias, and    *)
(* scope = "" one whose scope was left unset.                              *)
(***************************************************************************)
NoDecl == 0

TypeScript == "TypeScript"

TypeDoc == "TypeDoc"

Declaration ==
    [d \in 1..4 |->
        CASE d = 1 -> [name |-> "Opt", short |-> "o", scope |-> TypeDoc, type |-> "Number",
                       minValue |-> 0, maxValue |-> 1, defaultValue |-> 1]
          [] d = 2 -> [name |-> "Opt", short |-> "p", scope |-> "", type |-> "Number",
                       minValue |-> 0, maxValue |-> 1, defaultValue |-> 0]
          [] d = 3 -> [name |-> "ts", short |-> "", scope |-> TypeScript, type |-> "Boolean",
                       minValue |-> 0, maxValue |-> 0, defaultValue |-> 1]
          [] d = 4 -> [name |-> "O", short |-> "", scope |-> TypeDoc, type |-> "Boolean",
                       minValue |-> 0, maxValue |-> 0, defaultValue |-> Undefined]]

Decls == DOMAIN Declaration

(***************************************************************************)
(* Result and convert.                                                     *)
(***************************************************************************)
Ok(v) == [ok |-> TRUE, value |-> v, error |-> ""]

Err(e) == [ok |-> FALSE, value |-> Undefined, error |-> e]

\* validate and convert a raw value against a declaration
convert(value, d) ==
    LET decl == Declaration[d]
        num == IF value = Undefined THEN 0 ELSE value
    IN  CASE decl.type = "Number" ->
                IF num < decl.minValue \/ num > decl.maxValue
                THEN Err("OutOfBounds")
                ELSE Ok(num)
          [] decl.type = "Boolean" ->
                Ok(IF value = Undefined \/ value = 0 THEN 0 ELSE 1)
          [] OTHER -> Ok(value)

(***************************************************************************)
(* The registry: a Map from lower-cased key to declaration, kept in        *)
(* insertion order as a sequence of entries.                               *)
(***************************************************************************)
MapHas(m, k) == \E i \in 1..Len(m) : m[i].key = k

MapGet(m, k) ==
    IF MapHas(m, k) THEN m[CHOOSE i \in 1..Len(m) : m[i].key = k].decl ELSE NoDecl

MapSet(m, k, d) ==
    IF MapHas(m, k)
    THEN [i \in 1..Len(m) |-> IF m[i].key = k THEN [key |-> k, decl |-> d] ELSE m[i]]
    ELSE Append(m, [key |-> k, decl |-> d])

MapDelete(m, k) == SelectSeq(m, LAMBDA e : e.key # k)

\* getDeclaration looking the name up as it is spelled
getDeclaration_as_spelled(decls, name) == MapGet(decls, name)

\* Options.getDeclaration
getDeclaration(decls, name) == MapGet(decls, toLowerCase(name))

(***************************************************************************)
(* The container as a value: c.decls, c.values, c.copts are the fields     *)
(* _declarations, _values, _compilerOptions; c.logged counts the calls of  *)
(* _logger.error and c.thrown is set when an exception left the call.      *)
(***************************************************************************)
Container(decls, values, copts) ==
    [decls |-> decls, values |-> values, copts |-> copts, logged |-> 0, thrown |-> FALSE]

\* the default assignment shared by addDeclaration and reset
storeDefault(c, d) ==
    LET decl == Declaration[d]
        r == convert(decl.defaultValue, d)
    IN  IF c.thrown \/ decl.scope = TypeScript THEN c
        ELSE IF r.ok THEN [c EXCEPT !.values = BagSet(c.values, decl.name, r.value)]
        ELSE [c EXCEPT !.thrown = TRUE]

\* the round of the loop reporting a conflict for every key that is taken,
\* the declaration's own keys included
registerName_same_object_conflicts(c, d, name) ==
    LET decl == getDeclaration(c.decls, name)
    IN  IF decl # NoDecl
        THEN [c EXCEPT !.logged = c.logged + 1]
        ELSE [c EXCEPT !.decls = MapSet(c.decls, toLowerCase(name), d)]

\* one round of the loop over names in addDeclaration
registerName(c, d, name) ==
    LET decl == getDeclaration(c.decls, name)
    IN  IF decl # NoDecl /\ decl # d
        THEN [c EXCEPT !.logged = c.logged + 1]
        ELSE [c EXCEPT !.decls = MapSet(c.decls, toLowerCase(name), d)]

\* Options.addDeclaration
addDeclaration(c, d) ==
    LET decl == Declaration[d]
        c1 == registerName(c, d, decl.name)
        c2 == IF decl.short # "" THEN registerName(c1, d, decl.short) ELSE c1
    IN  storeDefault(c2, d)

\* removeDeclarationByName deleting only the key it was called with
removeDeclarationByName_given_key(c, name) ==
    LET d == getDeclaration(c.decls, name)
        decl == Declaration[d]
    IN  IF d = NoDecl THEN c
        ELSE [c EXCEPT !.decls = MapDelete(c.decls, toLowerCase(name)),
                       !.values = BagDelete(c.values, decl.name)]

\* Options.removeDeclarationByName
removeDeclarationByName(c, name) ==
    LET d == getDeclaration(c.decls, name)
        decl == Declaration[d]
        m1 == MapDelete(c.decls, toLowerCase(decl.name))
        m2 == IF decl.short # "" THEN MapDelete(m1, toLowerCase(decl.short)) ELSE m1
    IN  IF d = NoDecl THEN c
        ELSE [c EXCEPT !.decls = m2, !.values = BagDelete(c.values, decl.name)]

RECURSIVE resetFrom(_, _)
\* the loop of reset over _declarations.values(), from entry i on
resetFrom(c, i) ==
    IF i > Len(c.decls) \/ c.thrown THEN c
    ELSE resetFrom(storeDefault(c, c.decls[i].decl), i + 1)

\* reset leaving the passthrough bag as it is
reset_keeps_passthrough(c) == resetFrom(c, 1)

\* Options.reset
reset(c) ==
    LET c1 == resetFrom(c, 1)
    IN  IF c1.thrown THEN c1 ELSE [c1 EXCEPT !.copts = EmptyBag]

\* tryGetValue reading the bag under the name it was given
tryGetValue_by_given_name(c, name) ==
    LET d == getDeclaration(c.decls, name)
    IN  IF d = NoDecl THEN Err("UnknownOption")
        ELSE IF Declaration[d].scope = TypeScript THEN Err("UseGetCompilerOptions")
        ELSE Ok(BagGet(c.values, name))

\* Options.tryGetValue
tryGetValue(c, name) ==
    LET d == getDeclaration(c.decls, name)
    IN  IF d = NoDecl THEN Err("UnknownOption")
        ELSE IF Declaration[d].scope = TypeScript THEN Err("UseGetCompilerOptions")
        ELSE Ok(BagGet(c.values, Declaration[d].name))

\* getValue throwing for an unknown option only
getValue_throws_unknown_only(c, name) ==
    LET r == tryGetValue(c, name)
    IN  [ok |-> r.ok, value |-> r.value, error |-> r.error,
         thrown |-> r.error = "UnknownOption"]

\* Options.getValue: the result of tryGetValue, thrown when it is an Err
getValue(c, name) ==
    LET r == tryGetValue(c, name)
    IN  [ok |-> r.ok, value |-> r.value, error |-> r.error, thrown |-> ~r.ok]

\* Options.isDefault: getValue(name) === getDeclaration(name).defaultValue,
\* the default as the declaration spells it; what getValue throws goes through
isDefault(c, name) ==
    LET r == getValue(c, name)
        d == getDeclaration(c.decls, name)
    IN  IF r.thrown THEN [thrown |-> TRUE, value |-> FALSE]
        ELSE [thrown |-> FALSE, value |-> (r.value = Declaration[d].defaultValue)]

\* Options.getRawValues
getRawValues(c) == c.values

\* Options.getCompilerOptions
getCompilerOptions(c) == c.copts

\* setValue storing an undeclared option as it is given
setValue_undeclared_stored(c, name, value) ==
    LET d == getDeclaration(c.decls, name)
        decl == Declaration[d]
        r == convert(value, d)
    IN  IF d = NoDecl
        THEN [c |-> [c EXCEPT !.values = BagSet(c.values, name, value)],
              res |-> Err("NotDeclared")]
        ELSE IF ~r.ok THEN [c |-> c, res |-> Err(r.error)]
        ELSE IF decl.scope = TypeScript
             THEN [c |-> [c EXCEPT !.copts = BagSet(c.copts, decl.name, r.value)],
                   res |-> Ok(Undefined)]
             ELSE [c |-> [c EXCEPT !.values = BagSet(c.values, decl.name, r.value)],
                   res |-> Ok(Undefined)]

\* setValue storing the raw value before it looks at the conversion's result
setValue_store_before_check(c, name, value) ==
    LET d == getDeclaration(c.decls, name)
        decl == Declaration[d]
        r == convert(value, d)
        raw == IF decl.scope = TypeScript
               THEN [c EXCEPT !.copts = BagSet(c.copts, decl.name, value)]
               ELSE [c EXCEPT !.values = BagSet(c.values, decl.name, value)]
    IN  IF d = NoDecl THEN [c |-> c, res |-> Err("NotDeclared")]
        ELSE IF ~r.ok THEN [c |-> raw, res |-> Err(r.error)]
        ELSE IF decl.scope = TypeScript
             THEN [c |-> [c EXCEPT !.copts = BagSet(c.copts, decl.name, r.value)],
                   res |-> Ok(Undefined)]
             ELSE [c |-> [c EXCEPT !.values = BagSet(c.values, decl.name, r.value)],
                   res |-> Ok(Undefined)]

\* setValue writing every option into _values, whatever its scope
setValue_one_bag(c, name, value) ==
    LET d == getDeclaration(c.decls, name)
        decl == Declaration[d]
        r == convert(value, d)
    IN  IF d = NoDecl THEN [c |-> c, res |-> Err("NotDeclared")]
        ELSE IF ~r.ok THEN [c |-> c, res |-> Err(r.error)]
        ELSE [c |-> [c EXCEPT !.values = BagSet(c.values, decl.name, r.value)],
              res |-> Ok(Undefined)]

\* Options.setValue: the container afterwards and the Result returned
setValue(c, name, value) ==
    LET d == getDeclaration(c.decls, name)
        decl == Declaration[d]
        r == convert(value, d)
    IN  IF d = NoDecl THEN [c |-> c, res |-> Err("NotDeclared")]
        ELSE IF ~r.ok THEN [c |-> c, res |-> Err(r.error)]
        ELSE IF decl.scope = TypeScript
             THEN [c |-> [c EXCEPT !.copts = BagSet(c.copts, decl.name, r.value)],
                   res |-> Ok(Undefined)]
             ELSE [c |-> [c EXCEPT !.values = BagSet(c.values, decl.name, r.value)],
                   res |-> Ok(Undefined)]

RECURSIVE setValuesFrom(_, _, _, _)
\* the loop of setValues over Object.entries(obj), from entry i on
setValuesFrom(c, obj, i, errors) ==
    IF i > Len(obj) THEN [c |-> c, errors |-> errors]
    ELSE LET s == setValue(c, obj[i].name, obj[i].value)
         IN  setValuesFrom(s.c, obj, i + 1,
                           IF s.res.ok THEN errors
                           ELSE Append(errors, [name |-> obj[i].name, error |-> s.res.error]))

RECURSIVE setValuesUntilError(_, _, _)
\* the loop of setValues leaving at the first entry that fails
setValuesUntilError(c, obj, i) ==
    IF i > Len(obj) THEN [c |-> c, errors |-> <<>>]
    ELSE LET s == setValue(c, obj[i].name, obj[i].value)
         IN  IF s.res.ok THEN setValuesUntilError(s.c, obj, i + 1)
             ELSE [c |-> s.c, errors |-> <<[name |-> obj[i].name, error |-> s.res.error]>>]

\* setValues returning at the first error
setValues_stop_at_first_error(c, obj) ==
    LET s == setValuesUntilError(c, obj, 1)
    IN  [c |-> s.c, errors |-> s.errors, ok |-> s.errors = <<>>]

\* Options.setValues
setValues(c, obj) ==
    LET s == setValuesFrom(c, obj, 1, <<>>)
    IN  [c |-> s.c, errors |-> s.errors, ok |-> s.errors = <<>>]

(***************************************************************************)
(* Readers.  A reader is an object supplied from outside with a priority,  *)
(* a name and a read method; the model knows five of them by identity.     *)
(* The read method of a reader is one call on the container: setValue      *)
(* (kind "set"), addDeclaration (kind "declare") or getValue (kind "get",  *)
(* the reader catching what getValue throws and returning normally).       *)
(***************************************************************************)
Reader ==
    [r \in 1..5 |->
        CASE r = 1 -> [priority |-> 0, name |-> "argv",
                       kind |-> "set", option |-> "Opt", value |-> 0, decl |-> NoDecl]
          [] r = 2 -> [priority |-> 300, name |-> "argv",
                       kind |-> "set", option |-> "OPT", value |-> 1, decl |-> NoDecl]
          [] r = 3 -> [priority |-> 200, name |-> "tsconfig-json",
                       kind |-> "declare", option |-> "", value |-> Undefined, decl |-> 1]
          [] r = 4 -> [priority |-> 0, name |-> "Argv",
                       kind |-> "set", option |-> "o", value |-> 1, decl |-> NoDecl]
          [] r = 5 -> [priority |-> 400, name |-> "typedoc-json",
                       kind |-> "get", option |-> "OPT", value |-> Undefined, decl |-> NoDecl]]

Readers == DOMAIN Reader

ReaderNames == {"argv", "Argv", "tsconfig-json", "typedoc-json"}

\* insert item before the first element of greater priority, at the end if none
insertPrioritySorted(arr, item) ==
    LET later == {i \in 1..Len(arr) : Reader[arr[i]].priority > Reader[item].priority}
        index == IF later = {} THEN Len(arr) + 1
                 ELSE CHOOSE i \in later : \A j \in later : i <= j
    IN  SubSeq(arr, 1, index - 1) \o <<item>> \o SubSeq(arr, index, Len(arr))

\* addReader pushing the reader at the end of the list
addReader_push(readers, r) == Append(readers, r)

\* Options.addReader
addReader(readers, r) == insertPrioritySorted(readers, r)

\* removeReaderByName dropping the first reader of that name only
removeReaderByName_first_match(readers, name) ==
    LET hits == {i \in 1..Len(readers) : Reader[readers[i]].name = name}
        m == CHOOSE i \in hits : \A k \in hits : i <= k
    IN  IF hits = {} THEN readers
        ELSE [i \in 1..(Len(readers) - 1) |-> IF i < m THEN readers[i] ELSE readers[i + 1]]

\* Options.removeReaderByName
removeReaderByName(readers, name) == SelectSeq(readers, LAMBDA r : Reader[r].name # name)

\* reader.read(container, logger) of reader r: the container afterwards and
\* what the reader's call on the container returned
readerRead(c, r) ==
    LET rd == Reader[r]
        g == getValue(c, rd.option)
    IN  CASE rd.kind = "set" -> setValue(c, rd.option, rd.value)
          [] rd.kind = "get" -> [c |-> c, res |-> [ok |-> g.ok, value |-> g.value, error |-> g.error]]
          [] OTHER -> [c |-> addDeclaration(c, rd.decl), res |-> Ok(Undefined)]

RECURSIVE readFrom(_, _, _, _)
\* the loop of read over _readers, from position i on
readFrom(c, readers, i, log) ==
    IF i > Len(readers) \/ c.thrown THEN [c |-> c, log |-> log]
    ELSE LET s == readerRead(c, readers[i])
         IN  readFrom(s.c, readers, i + 1,
                      Append(log, [reader |-> readers[i], ok |-> s.res.ok, value |-> s.res.value]))

\* read walking the list of readers from its end
read_backwards(c, readers) ==
    readFrom(c, [i \in 1..Len(readers) |-> readers[Len(readers) + 1 - i]], 1, <<>>)

RECURSIVE readIsolatedFrom(_, _, _, _, _)
\* the loop of read handing every reader the container as the pass found it
readIsolatedFrom(c0, c, readers, i, log) ==
    IF i > Len(readers) \/ c.thrown THEN [c |-> c, log |-> log]
    ELSE LET s == readerRead(c0, readers[i])
         IN  readIsolatedFrom(c0, s.c, readers, i + 1,
                      Append(log, [reader |-> readers[i], ok |-> s.res.ok, value |-> s.res.value]))

\* read giving the readers no sight of each other's changes
read_isolated(c, readers) == readIsolatedFrom(c, c, readers, 1, <<>>)

\* Options.read
read(c, readers) == readFrom(c, readers, 1, <<>>)

(***************************************************************************)
(* The state machine.                                                      *)
(***************************************************************************)
Self == Container(_declarations, _values, _compilerOptions)

\* what the most recent call was given and what it gave back; log lists the
\* readers a read pass invoked, in the order of invocation
Call(op, name, arg, ok, value, error, thrown, logged, errors) ==
    [op |-> op, name |-> name, arg |-> arg, ok |-> ok, value |-> value, error |-> error,
     thrown |-> thrown, logged |-> logged, errors |-> errors, log |-> <<>>]

Store(c) ==
    /\ _declarations' = c.decls
    /\ _values' = c.values
    /\ _compilerOptions' = c.copts

Init ==
    /\ _readers = <<>>
    /\ _declarations = <<>>
    /\ _values = EmptyBag
    /\ _compilerOptions = EmptyBag
    /\ last = Call("new", "", Undefined, TRUE, Undefined, "", FALSE, 0, <<>>)
    /\ added = <<>>

AddDeclaration(d) ==
    LET c == addDeclaration(Self, d)
    IN  /\ Store(c)
        /\ last' = Call("addDeclaration", Declaration[d].name, d, ~c.thrown, Undefined, "",
                        c.thrown, c.logged, <<>>)
        /\ UNCHANGED <<_readers, added>>

RemoveDeclarationByName(n) ==
    LET c == removeDeclarationByName(Self, n)
    IN  /\ Store(c)
        /\ last' = Call("removeDeclarationByName", n, getDeclaration(_declarations, n), TRUE,
                        Undefined, "", FALSE, 0, <<>>)
        /\ UNCHANGED <<_readers, added>>

Reset ==
    LET c == reset(Self)
    IN  /\ Store(c)
        /\ last' = Call("reset", "", _compilerOptions, ~c.thrown, Undefined, "", c.thrown, 0, <<>>)
        /\ UNCHANGED <<_readers, added>>

SetValue(n, v) ==
    LET s == setValue(Self, n, v)
    IN  /\ Store(s.c)
        /\ last' = Call("setValue", n, v, s.res.ok, s.res.value, s.res.error, FALSE, 0, <<>>)
        /\ UNCHANGED <<_readers, added>>

\* the objects handed to setValues: up to MaxEntries entries with distinct keys
SetNames == {"OPT", "ts", "zz"}

SetRaw == {0, MaxRaw}

\* the entries of those objects: "OPT" with a value its declaration accepts
\* and with one it refuses, the other names with one value
SetEntries == {e \in [name : SetNames, value : SetRaw] : e.name = "OPT" \/ e.value = MaxRaw}

Objects ==
    {obj \in UNION {[1..k -> SetEntries] : k \in 0..MaxEntries} :
        \A i, j \in 1..Len(obj) : i # j => obj[i].name # obj[j].name}

SetValues(obj) ==
    LET s == setValues(Self, obj)
    IN  /\ Store(s.c)
        /\ last' = Call("setValues", "", obj, s.ok, Undefined, "", FALSE, 0, s.errors)
        /\ UNCHANGED <<_readers, added>>

TryGetValue(n) ==
    LET r == tryGetValue(Self, n)
    IN  /\ last' = Call("tryGetValue", n, Undefined, r.ok, r.value, r.error, FALSE, 0, <<>>)
        /\ UNCHANGED <<_readers, _declarations, _values, _compilerOptions, added>>

GetValue(n) ==
    LET r == getValue(Self, n)
    IN  /\ last' = Call("getValue", n, Undefined, r.ok, r.value, r.error, r.thrown, 0, <<>>)
        /\ UNCHANGED <<_readers, _declarations, _values, _compilerOptions, added>>

IsDefault(n) ==
    LET r == isDefault(Self, n)
    IN  /\ last' = Call("isDefault", n, Undefined, ~r.thrown, r.value, "", r.thrown, 0, <<>>)
        /\ UNCHANGED <<_readers, _declarations, _values, _compilerOptions, added>>

AddReader(r) ==
    /\ Len(_readers) < MaxReaders
    /\ _readers' = addReader(_readers, r)
    /\ added' = Append(added, r)
    /\ last' = Call("addReader", Reader[r].name, r, TRUE, Undefined, "", FALSE, 0, <<>>)
    /\ UNCHANGED <<_declarations, _values, _compilerOptions>>

RemoveReaderByName(nm) ==
    /\ _readers' = removeReaderByName(_readers, nm)
    /\ added' = SelectSeq(added, LAMBDA r : Reader[r].name # nm)
    /\ last' = Call("removeReaderByName", nm, _readers, TRUE, Undefined, "", FALSE, 0, <<>>)
    /\ UNCHANGED <<_declarations, _values, _compilerOptions>>

Read ==
    LET s == read(Self, _readers)
    IN  /\ Store(s.c)
        /\ last' = [Call("read", "", Undefined, ~s.c.thrown, Undefined, "", s.c.thrown,
                         s.c.logged, <<>>) EXCEPT !.log = s.log]
        /\ UNCHANGED <<_readers, added>>

Next ==
    \/ \E d \in Decls : AddDeclaration(d)
    \/ \E n \in CallNames : RemoveDeclarationByName(n)
    \/ Reset
    \/ \E n \in CallNames, v \in RawValues : SetValue(n, v)
    \/ \E obj \in Objects : SetValues(obj)
    \/ \E n \in CallNames : TryGetValue(n)
    \/ \E n \in CallNames : GetValue(n)
    \/ \E n \in CallNames : IsDefault(n)

Spec == Init /\ [][Next]_vars

\* the reader pipeline: the host declares the options of PipelineDecls, adds
\* and removes readers, resets and reads
PipelineDecls == {1}

NextRead ==
    \/ \E d \in PipelineDecls : AddDeclaration(d)
    \/ Reset
    \/ \E r \in Readers : AddReader(r)
    \/ \E nm \in ReaderNames : RemoveReaderByName(nm)
    \/ Read

SpecRead == Init /\ [][NextRead]_vars

\* a host that declares a tool option and a passthrough option, sets them,
\* adds readers and resets
ResetDecls == {1, 3}

ResetNames == {"OPT", "ts"}

ResetReaders == {1, 3}

NextReset ==
    \/ \E d \in ResetDecls : AddDeclaration(d)
    \/ \E n \in ResetNames, v \in SetRaw : SetValue(n, v)
    \/ \E r \in ResetReaders : AddReader(r)
    \/ Reset

SpecReset == Init /\ [][NextReset]_vars

TypeOK ==
    /\ \A i \in 1..Len(_declarations) : _declarations[i].decl \in Decls
    /\ DOMAIN _values \subseteq {"Opt", "O", "ts"}
    /\ DOMAIN _compilerOptions \subseteq {"ts"}

(***************************************************************************)
(* Helpers of the properties.                                              *)
(***************************************************************************)
\* the container after the step
SelfNext == Container(_declarations', _values', _compilerOptions')

\* the declarations reachable through the registry
Registered(decls) == {decls[i].decl : i \in 1..Len(decls)}

\* the value stored for declaration d in the bag of its scope
StoredValue(c, d) ==
    IF Declaration[d].scope = TypeScript
    THEN BagGet(c.copts, Declaration[d].name)
    ELSE BagGet(c.values, Declaration[d].name)

(***************************************************************************)
(* C1: immediately after reset(), every declared Tool-scope option has as  *)
(* its effective value (getValue by the option's name) the validated       *)
(* default of the declaration getDeclaration returns for that name.        *)
(***************************************************************************)
C1_ResetRestoresDefaults ==
    last.op = "reset" =>
        \A d \in Registered(_declarations) :
            Declaration[d].scope # TypeScript =>
                LET g == getDeclaration(_declarations, Declaration[d].name)
                    r == getValue(Self, Declaration[d].name)
                IN  /\ g # NoDecl
                    /\ r.ok
                    /\ r.value = convert(Declaration[g].defaultValue, g).value

(***************************************************************************)
(* C2: addDeclaration with a declaration object different from the one     *)
(* registered under the same name preserves the prior registration, leaves *)
(* the original option's stored value untouched and raises no exception.   *)
(***************************************************************************)
C2_ConflictLeavesOriginalUntouched ==
    [][last'.op = "addDeclaration" =>
        \A d \in Decls :
            LET orig == getDeclaration(_declarations, Declaration[d].name)
            IN  (last'.arg = d /\ orig # NoDecl /\ orig # d) =>
                    /\ getDeclaration(_declarations', Declaration[d].name) = orig
                    /\ StoredValue(SelfNext, orig) = StoredValue(Self, orig)
                    /\ ~last'.thrown]_vars

(***************************************************************************)
(* C3: addDeclaration called again with the identical declaration object   *)
(* is a no-op: no conflict diagnostic, registry unchanged, and the current *)
(* stored value of the option preserved.                                   *)
(***************************************************************************)
C3_ReRegistrationIsNoOp ==
    [][last'.op = "addDeclaration" =>
        \A d \in Decls :
            (last'.arg = d /\ d \in Registered(_declarations)) =>
                /\ last'.logged = 0
                /\ _declarations' = _declarations
                /\ StoredValue(SelfNext, d) = StoredValue(Self, d)]_vars

(***************************************************************************)
(* The order the readers are meant to run in: the insertion history        *)
(* sorted by priority, earlier insertion first among equal priorities.     *)
(***************************************************************************)
Rank(h, i) ==
    1 + Cardinality({j \in 1..Len(h) :
            \/ Reader[h[j]].priority < Reader[h[i]].priority
            \/ (Reader[h[j]].priority = Reader[h[i]].priority /\ j < i)})

PriorityOrder(h) == [k \in 1..Len(h) |-> h[CHOOSE i \in 1..Len(h) : Rank(h, i) = k]]

\* the readers the last read pass invoked, in the order of invocation
InvokedReaders == [k \in 1..Len(last.log) |-> last.log[k].reader]

\* positions of PriorityOrder(h) whose reader sets, through setValue, a value
\* that declaration g accepts, under a name that addresses g
SettersOf(h, g) ==
    {k \in 1..Len(h) :
        LET rd == Reader[PriorityOrder(h)[k]]
        IN  /\ rd.kind = "set"
            /\ getDeclaration(_declarations, rd.option) = g
            /\ convert(rd.value, g).ok}

Max(S) == CHOOSE k \in S : \A j \in S : j <= k

C5_ReadersRunInPriorityOrder ==
    last.op = "read" => InvokedReaders = PriorityOrder(added)

\* priorities [300, 0, 200, 0] in insertion order ran as [0, 0, 200, 300]
C5_Witness ==
    /\ last.op = "read"
    /\ added = <<2, 1, 3, 4>>
    /\ InvokedReaders = <<1, 4, 3, 2>>

(***************************************************************************)
(* C6: setValue with an undeclared name returns a failure and leaves the   *)
(* tool bag, the passthrough bag and the registry unchanged.               *)
(***************************************************************************)
C6_SetUndeclaredFails ==
    [][(last'.op = "setValue" /\ getDeclaration(_declarations, last'.name) = NoDecl) =>
            /\ ~last'.ok
            /\ getRawValues(SelfNext) = getRawValues(Self)
            /\ getCompilerOptions(SelfNext) = getCompilerOptions(Self)
            /\ _declarations' = _declarations]_vars

C6_Witness ==
    /\ last.op = "setValue"
    /\ getDeclaration(_declarations, last.name) = NoDecl
    /\ ~last.ok
    /\ DOMAIN _values # {}
    /\ DOMAIN _compilerOptions # {}

(***************************************************************************)
(* C7: when setValue is called on a declared option and the declaration's  *)
(* validate-and-convert step fails, setValue returns a failure and both    *)
(* value bags are exactly as before the call.                              *)
(***************************************************************************)
C7_FailedConvertChangesNothing ==
    [][last'.op = "setValue" =>
        \A d \in Decls :
            (getDeclaration(_declarations, last'.name) = d /\ ~convert(last'.arg, d).ok) =>
                /\ ~last'.ok
                /\ _values' = _values
                /\ _compilerOptions' = _compilerOptions]_vars

C7_Witness ==
    /\ last.op = "setValue"
    /\ getDeclaration(_declarations, last.name) = 1
    /\ ~convert(last.arg, 1).ok
    /\ ~last.ok
    /\ BagGet(_values, "Opt") = 0
    /\ DOMAIN _compilerOptions # {}

(***************************************************************************)
(* C8: a successful setValue writes the converted value only into the bag  *)
(* of the declaration's scope: a Tool-scope option leaves the passthrough  *)
(* bag unchanged, a Passthrough-scope option leaves the tool bag unchanged *)
(* and its value is retrievable through getCompilerOptions.                *)
(***************************************************************************)
C8_SetWritesOnlyScopeBag ==
    [][(last'.op = "setValue" /\ last'.ok) =>
        \A d \in Decls :
            getDeclaration(_declarations, last'.name) = d =>
                LET v == convert(last'.arg, d).value
                    n == Declaration[d].name
                IN  IF Declaration[d].scope = TypeScript
                    THEN /\ getRawValues(SelfNext) = getRawValues(Self)
                         /\ n \in DOMAIN getCompilerOptions(SelfNext)
                         /\ getCompilerOptions(SelfNext)[n] = v
                    ELSE /\ getCompilerOptions(SelfNext) = getCompilerOptions(Self)
                         /\ n \in DOMAIN getRawValues(SelfNext)
                         /\ getRawValues(SelfNext)[n] = v]_vars

\* a Passthrough-scope option was set, to a value the conversion changed
C8_Witness ==
    /\ last.op = "setValue"
    /\ last.ok
    /\ last.name = "ts"
    /\ last.arg = 2
    /\ "ts" \in DOMAIN _compilerOptions
    /\ _compilerOptions["ts"] = 1
    /\ DOMAIN _values # {}

(***************************************************************************)
(* C9: tryGetValue never raises; it fails with "unknown option" when the   *)
(* name is not declared, fails with "wrong scope" when the declaration     *)
(* found is Passthrough-scoped, and otherwise succeeds with the value      *)
(* stored in the tool bag under the declaration's canonical name.          *)
(***************************************************************************)
C9_TryGetValueOutcome ==
    last.op = "tryGetValue" =>
        LET d == getDeclaration(_declarations, last.name)
        IN  /\ ~last.thrown
            /\ d = NoDecl => (~last.ok /\ last.error = "UnknownOption")
            /\ (d # NoDecl /\ Declaration[d].scope = TypeScript) =>
                   (~last.ok /\ last.error = "UseGetCompilerOptions")
            /\ (d # NoDecl /\ Declaration[d].scope # TypeScript) =>
                   (last.ok /\ last.value = BagGet(_values, Declaration[d].name))

\* a success through a short alias, the value read under the canonical name
C9_Witness ==
    /\ last.op = "tryGetValue"
    /\ last.name = "o"
    /\ getDeclaration(_declarations, "o") = 1
    /\ last.ok
    /\ last.value = 0
    /\ BagGet(_values, "Opt") = 0

(***************************************************************************)
(* C10: getValue(name) raises exactly when name is not declared; for every *)
(* declared name, of either scope, it returns the stored value without     *)
(* raising.                                                                *)
(***************************************************************************)
C10_GetValueRaisesIffUndeclared ==
    last.op = "getValue" =>
        LET d == getDeclaration(_declarations, last.name)
        IN  /\ last.thrown <=> d = NoDecl
            /\ d # NoDecl => last.value = StoredValue(Self, d)

(***************************************************************************)
(* C10 as amended: getValue(name) raises exactly when name is not declared *)
(* or the declaration found is Passthrough-scoped; for every declared      *)
(* Tool-scope name it returns, without raising, the value stored in the    *)
(* tool bag under the declaration's canonical name.                        *)
(***************************************************************************)
C10_GetValueRaisesIffNotToolScope ==
    last.op = "getValue" =>
        LET d == getDeclaration(_declarations, last.name)
        IN  /\ last.thrown <=> (d = NoDecl \/ Declaration[d].scope = TypeScript)
            /\ (d # NoDecl /\ Declaration[d].scope # TypeScript) =>
                   last.value = BagGet(_values, Declaration[d].name)

\* getValue raised on a declared Passthrough-scope option that holds a value
C10_Witness ==
    /\ last.op = "getValue"
    /\ last.name = "ts"
    /\ getDeclaration(_declarations, "ts") = 3
    /\ "ts" \in DOMAIN _compilerOptions
    /\ last.thrown

(***************************************************************************)
(* C11: lookup and update are case-insensitive and alias-aware.  For a     *)
(* declaration registered under its name N and its short alias S, every    *)
(* spelling of N or S handed to getDeclaration, tryGetValue, getValue and  *)
(* setValue addresses that declaration and the one value stored under its  *)
(* canonical name, also after a setValue through any of the spellings.     *)
(***************************************************************************)
\* the spellings callers use for the name and the short alias of d
Spellings(d) ==
    {n \in CallNames :
        \/ toLowerCase(n) = toLowerCase(Declaration[d].name)
        \/ (Declaration[d].short # "" /\ toLowerCase(n) = toLowerCase(Declaration[d].short))}

\* d holds the registry keys of both its name and its short alias
RegisteredUnderAllKeys(decls, d) ==
    /\ MapGet(decls, toLowerCase(Declaration[d].name)) = d
    /\ Declaration[d].short # "" => MapGet(decls, toLowerCase(Declaration[d].short)) = d

\* what a read of declaration d gives: its one stored value, or the
\* wrong-scope failure
ReadOf(d) ==
    IF Declaration[d].scope = TypeScript
    THEN Err("UseGetCompilerOptions")
    ELSE Ok(BagGet(_values, Declaration[d].name))

C11_CaseInsensitiveAliasAware ==
    \A d \in Decls :
        RegisteredUnderAllKeys(_declarations, d) =>
            /\ \A n \in Spellings(d) :
                /\ getDeclaration(_declarations, n) = d
                /\ tryGetValue(Self, n) = ReadOf(d)
                /\ getValue(Self, n).value = ReadOf(d).value
                /\ getValue(Self, n).thrown = ~ReadOf(d).ok
            /\ (last.op \in {"tryGetValue", "getValue"} /\ last.name \in Spellings(d)) =>
                   (last.ok = ReadOf(d).ok /\ last.value = ReadOf(d).value)
            /\ (last.op = "setValue" /\ last.ok /\ last.name \in Spellings(d)) =>
                   StoredValue(Self, d) = convert(last.arg, d).value

\* "Opt" with alias "o" was set through the spelling "O" and reads back,
\* changed, through "OPT"
C11_Witness ==
    /\ last.op = "setValue"
    /\ last.name = "O"
    /\ last.ok
    /\ last.arg = 0
    /\ RegisteredUnderAllKeys(_declarations, 1)
    /\ tryGetValue(Self, "OPT") = Ok(0)
    /\ convert(Declaration[1].defaultValue, 1).value # 0

(***************************************************************************)
(* C12: after removeDeclarationByName(n) for a declared n, getDeclaration  *)
(* returns nothing for the declaration's canonical name and for its short  *)
(* alias, tryGetValue on either gives the unknown-option failure and       *)
(* getValue on either raises; when n is not declared nothing changes.      *)
(***************************************************************************)
\* the name and, when it has one, the short alias of declaration d
OwnNames(d) ==
    {Declaration[d].name} \cup
        (IF Declaration[d].short # "" THEN {Declaration[d].short} ELSE {})

C12_RemovedNamesAreUnknown ==
    [][last'.op = "removeDeclarationByName" =>
        LET d == getDeclaration(_declarations, last'.name)
        IN  IF d = NoDecl
            THEN UNCHANGED <<_declarations, _values, _compilerOptions, _readers>>
            ELSE \A n \in OwnNames(d) :
                    /\ getDeclaration(_declarations', n) = NoDecl
                    /\ tryGetValue(SelfNext, n) = Err("UnknownOption")
                    /\ getValue(SelfNext, n).thrown]_vars

\* "Opt" with alias "o" was removed through the spelling "O" of its alias
C12_Witness ==
    /\ last.op = "removeDeclarationByName"
    /\ last.name = "O"
    /\ last.arg = 1
    /\ getDeclaration(_declarations, "Opt") = NoDecl
    /\ getDeclaration(_declarations, "o") = NoDecl
    /\ _declarations # <<>>

(***************************************************************************)
(* C13: removeDeclarationByName drops any stored value of the removed      *)
(* declaration, whatever its scope: afterwards neither the tool bag nor    *)
(* the passthrough bag holds an entry under the declaration's name.        *)
(***************************************************************************)
C13_RemoveDropsStoredValue ==
    [][last'.op = "removeDeclarationByName" =>
        LET d == getDeclaration(_declarations, last'.name)
        IN  d # NoDecl =>
                /\ Declaration[d].name \notin DOMAIN getRawValues(SelfNext)
                /\ Declaration[d].name \notin DOMAIN getCompilerOptions(SelfNext)]_vars

(***************************************************************************)
(* C14: in every reachable state the names and short aliases of the        *)
(* registry are unique under case-insensitive comparison: no two distinct  *)
(* declarations reachable through the registry have a name or short alias  *)
(* that equals, ignoring case, a name or short alias of the other.         *)
(***************************************************************************)
LowerNames(d) == {toLowerCase(n) : n \in OwnNames(d)}

C14_NamesUniqueIgnoringCase ==
    \A d, e \in Registered(_declarations) :
        d # e => LowerNames(d) \cap LowerNames(e) = {}

(***************************************************************************)
(* C15: setValues applies setValue to every entry of its argument and      *)
(* continues past failures: it returns success when no entry fails and     *)
(* otherwise a failure carrying exactly one error per failing key, all of  *)
(* them; every entry whose setValue succeeded remains applied.             *)
(***************************************************************************)
\* entry i of obj is refused by setValue: its name is not declared or its
\* value does not convert
EntryFails(decls, obj, i) ==
    LET d == getDeclaration(decls, obj[i].name)
    IN  d = NoDecl \/ ~convert(obj[i].value, d).ok

C15_SetValuesReportsEveryFailure ==
    [][last'.op = "setValues" =>
        LET obj == last'.arg
            failing == {i \in 1..Len(obj) : EntryFails(_declarations, obj, i)}
        IN  /\ last'.ok <=> failing = {}
            /\ Len(last'.errors) = Cardinality(failing)
            /\ \A i \in failing :
                   Cardinality({k \in 1..Len(last'.errors) :
                                   last'.errors[k].name = obj[i].name}) = 1
            /\ \A i \in (1..Len(obj)) \ failing :
                   LET d == getDeclaration(_declarations, obj[i].name)
                   IN  /\ StoredValue(SelfNext, d) = convert(obj[i].value, d).value
                       /\ \A k \in 1..Len(last'.errors) : last'.errors[k].name # obj[i].name
            /\ _declarations' = _declarations]_vars

\* the first entry failed and the second one was applied all the same
C15_Witness ==
    /\ last.op = "setValues"
    /\ Len(last.arg) = 2
    /\ last.arg[1].name = "OPT"
    /\ last.arg[2] = [name |-> "ts", value |-> MaxRaw]
    /\ ~last.ok
    /\ Len(last.errors) = 1
    /\ last.errors[1] = [name |-> "OPT", error |-> "OutOfBounds"]
    /\ BagGet(_compilerOptions, "ts") = 1

(***************************************************************************)
(* C16: a mutation made by one reader during a read pass is visible to     *)
(* every reader invoked later in the same pass: after an earlier reader    *)
(* called addDeclaration for an option, a later reader's setValue on that  *)
(* option succeeds, and a later reader's getValue returns the value an     *)
(* earlier reader stored.                                                  *)
(***************************************************************************)
\* the positions before j of the log at which a reader stored a value for
\* declaration d: a setValue that succeeded, or the addDeclaration of d
WritesBefore(d, j) ==
    {i \in 1..(j - 1) :
        LET rd == Reader[last.log[i].reader]
        IN  \/ rd.kind = "declare" /\ rd.decl = d
            \/ /\ rd.kind = "set"
               /\ getDeclaration(_declarations, rd.option) = d
               /\ last.log[i].ok}

\* the value the reader at position i of the log stored for declaration d
Written(d, i) ==
    LET rd == Reader[last.log[i].reader]
    IN  IF rd.kind = "declare"
        THEN convert(Declaration[d].defaultValue, d).value
        ELSE convert(rd.value, d).value

C16_ReadersSeeEarlierMutations ==
    last.op = "read" =>
        \A j \in 1..Len(last.log) :
            LET rd == Reader[last.log[j].reader]
                d == getDeclaration(_declarations, rd.option)
                W == WritesBefore(d, j)
            IN  /\ (/\ rd.kind = "set"
                    /\ \E i \in 1..(j - 1) :
                          /\ Reader[last.log[i].reader].kind = "declare"
                          /\ Reader[last.log[i].reader].decl = d
                    /\ convert(rd.value, d).ok) => last.log[j].ok
                /\ (rd.kind = "get" /\ d # NoDecl /\ W # {}) =>
                       (last.log[j].ok /\ last.log[j].value = Written(d, Max(W)))

\* the option was new to the pass (the set of reader 1 failed), reader 3
\* declared it, the set of reader 2 succeeded and reader 5 read that value
C16_Witness ==
    /\ last.op = "read"
    /\ InvokedReaders = <<1, 3, 2, 5>>
    /\ ~last.log[1].ok
    /\ last.log[3].ok
    /\ last.log[4].ok
    /\ last.log[4].value = convert(Reader[2].value, 1).value

(***************************************************************************)
(* C17: removeReaderByName(name) removes every reader whose name is        *)
(* exactly name (case-sensitively), whatever its priority, and keeps the   *)
(* other readers in their previous relative order; a read() afterwards     *)
(* invokes exactly the readers that remain.                                *)
(***************************************************************************)
\* the readers of list h whose name is not n, in the order of h
Others(h, n) == SelectSeq(h, LAMBDA r : Reader[r].name # n)

C17_RemoveReaderByNameExact ==
    [][/\ last'.op = "removeReaderByName" =>
            /\ \A i \in 1..Len(_readers') : Reader[_readers'[i]].name # last'.name
            /\ _readers' = Others(_readers, last'.name)
       /\ last'.op = "read" => InvokedReaders' = _readers]_vars

\* "argv" is removed at priority 0 and at priority 300; "Argv" and
\* "tsconfig-json" stay, in the order they had
C17_Witness ==
    /\ last.op = "removeReaderByName"
    /\ last.name = "argv"
    /\ last.arg = <<1, 4, 3, 2>>
    /\ _readers = <<4, 3>>

(***************************************************************************)
(* C18: registering a different declaration object under an already-used   *)
(* name emits exactly one conflict diagnostic, and a registration with no  *)
(* conflicting key emits none.                                             *)
(***************************************************************************)
\* the keys of declaration d that registry decls maps to another declaration
ConflictingKeys(decls, d) ==
    {k \in LowerNames(d) : MapHas(decls, k) /\ MapGet(decls, k) # d}

C18_ExactlyOneConflictDiagnostic ==
    [][last'.op = "addDeclaration" =>
        LET K == ConflictingKeys(_declarations, last'.arg)
        IN  /\ K # {} => last'.logged = 1
            /\ K = {} => last'.logged = 0]_vars

(***************************************************************************)
(* C18, amended: addDeclaration emits one conflict diagnostic for each of  *)
(* the declaration's keys (its name, its short alias) that is registered   *)
(* to a different declaration object, and none when no key conflicts.      *)
(***************************************************************************)
C18_OneDiagnosticPerConflictingKey ==
    [][last'.op = "addDeclaration" =>
        last'.logged = Cardinality(ConflictingKeys(_declarations, last'.arg))]_vars

\* declaration 1 registered while "opt" and "o" belong to other declarations
C18_Witness ==
    /\ last.op = "addDeclaration"
    /\ last.arg = 1
    /\ last.logged = 2

(***************************************************************************)
(* C19: reset() discards every Passthrough-scope entry, so that            *)
(* getCompilerOptions() is empty afterwards whatever was set before, and   *)
(* leaves the declaration registry and the reader list unchanged.          *)
(***************************************************************************)
C19_ResetClearsPassthroughOnly ==
    [][last'.op = "reset" =>
        /\ getCompilerOptions(SelfNext) = EmptyBag
        /\ _declarations' = _declarations
        /\ _readers' = _readers]_vars

\* reset found a value for "ts" in the passthrough bag and two readers
C19_Witness ==
    /\ last.op = "reset"
    /\ last.arg # EmptyBag
    /\ getCompilerOptions(Self) = EmptyBag
    /\ getDeclaration(_declarations, "ts") = 3
    /\ Len(_readers) = 2

(***************************************************************************)
(* C20: for every declared option, isDefault(name) is true exactly when    *)
(* the value currently stored for the option is identical to the default   *)
(* recorded for it (the value registration and reset store); in particular *)
(* it is true when asked right after reset() and right after the option's  *)
(* registration.                                                           *)
(***************************************************************************)
\* the default registration and reset record for declaration d
RecordedDefault(d) == convert(Declaration[d].defaultValue, d).value

C20_IsDefaultIffStoredIsDefault ==
    [][last'.op = "isDefault" =>
        LET d == getDeclaration(_declarations, last'.name)
        IN  d # NoDecl =>
              /\ ~last'.thrown
              /\ last'.value <=> (StoredValue(Self, d) = RecordedDefault(d))
              /\ (\/ last.op = "reset"
                  \/ (last.op = "addDeclaration" /\ last.arg = d)) => last'.value]_vars

(***************************************************************************)
(* C21: removeDeclarationByName(n) deletes only the registry entries that  *)
(* map to the declaration being removed: every key that mapped to another  *)
(* declaration maps to it afterwards, also when the removed declaration    *)
(* held only one of its two keys because the other belonged to a different *)
(* declaration.                                                            *)
(***************************************************************************)
\* the registry keys the calls of the model can address
Keys == {toLowerCase(n) : n \in CallNames}

C21_RemoveKeepsOtherDeclarations ==
    [][last'.op = "removeDeclarationByName" =>
        LET d == getDeclaration(_declarations, last'.name)
        IN  \A k \in Keys :
                (MapHas(_declarations, k) /\ MapGet(_declarations, k) # d) =>
                    (MapHas(_declarations', k)
                       /\ MapGet(_declarations', k) = MapGet(_declarations, k))]_vars

(***************************************************************************)
(* C22: in every reachable state every Tool-scope declaration reachable    *)
(* through the registry has a value stored in the tool bag under its       *)
(* canonical name, so tryGetValue on a declared Tool-scope name never      *)
(* succeeds with a missing (undefined) value.                              *)
(***************************************************************************)
C22_DeclaredToolOptionHasValue ==
    /\ \A d \in Registered(_declarations) :
          Declaration[d].scope # TypeScript =>
              Declaration[d].name \in DOMAIN getRawValues(Self)
    /\ \A n \in CallNames :
          LET r == tryGetValue(Self, n)
          IN  r.ok => r.value # Undefined

(***************************************************************************)
(* C23: in every reachable state every key of the tool bag, as returned by *)
(* getRawValues, is the canonical name of a Tool-scope declaration that is *)
(* reachable through the registry: no value is stored for a declaration    *)
(* whose registration was rejected or which has been removed.              *)
(***************************************************************************)
C23_ToolBagKeysAreDeclared ==
    \A k \in DOMAIN getRawValues(Self) :
        \E d \in Registered(_declarations) :
            /\ Declaration[d].scope # TypeScript
            /\ Declaration[d].name = k

====
